---- MODULE Spec2Model ----
(***************************************************************************)
(* Model of the gale data engine: the SQLite catalog schema (games,        *)
(* packages, packages_fts and its triggers, versions, profiles,            *)
(* profile_mods), the schema migration sequence, and the presentation      *)
(* layer's active-profile / active-community state (profile.svelte.ts).    *)
(***************************************************************************)
EXTENDS Integers, Sequences, FiniteSets, TLC

VARIABLES
    db,                  \* the relational store: one field per table
    recursive_triggers,  \* connection setting: do REPLACE deletes fire delete triggers
    dbres,               \* the last statement executed and its outcome
    backend,             \* committed profile snapshots served by 'get': id |-> mods
    events,              \* 'profile-update' events published, not yet delivered
    calls,               \* setActive calls awaiting their 'get' reply, in issue order
    active,              \* profiles.active
    localStorage,        \* the webview's localStorage: key |-> string
    communities_all,     \* communities.all
    communities_active,  \* communities.active
    fetch,               \* fetchCommunities awaiting its reply, with the id it read
    lastEvent,           \* the payload delivered last
    lastRequested,       \* the id of the setActive call issued last
    seenActive,          \* the last delivered payload for the active profile
    raced,               \* ids with an event delivered while a setActive awaited
    op,                  \* the presentation-layer step taken last
    migrations,          \* the installation's migration sequence (script names)
    schema_version,      \* the schema watermark
    tables,              \* row count of every table created so far
    attempted,           \* indices of the steps the last migrate call ran
    runs,                \* consecutive full migrate calls made (up to 2)
    mop                  \* the schema-store step taken last

dbVars == <<db, recursive_triggers, dbres>>

profileVars ==
    <<backend, events, calls, active, lastEvent, lastRequested, seenActive, raced>>

communityVars == <<communities_all, communities_active, fetch>>

uiVars == <<profileVars, communityVars, localStorage, op>>

migVars == <<migrations, schema_version, tables, attempted, runs, mop>>

vars == <<dbVars, uiVars, migVars>>

(***************************************************************************)
(* Bounds of the exploration.                                              *)
(***************************************************************************)
MaxGameId == 3
MaxProfileId == 2
MaxProfileModId == 2
MaxFtsRows == 3
MaxMods == 1
MaxQueue == 2
MaxInFlight == 2
MaxRows == 3

(***************************************************************************)
(* Input domains.                                                          *)
(***************************************************************************)
PackageIds == {"p1", "p2"}
VersionIds == {"v1"}
GameIds == 1..MaxGameId
\* sample (name, description, owner) triples written to a package row
PackageTexts ==
    { [name |-> "a", description |-> "a", owner |-> "a"],
      [name |-> "b", description |-> "b", owner |-> "b"] }

PackageRows ==
    [name : {t.name : t \in PackageTexts},
     description : {t.description : t \in PackageTexts},
     owner : {t.owner : t \in PackageTexts},
     latest_version_id : VersionIds,
     game_id : GameIds]

PackageInputs ==
    {r \in PackageRows :
        [name |-> r.name, description |-> r.description, owner |-> r.owner]
            \in PackageTexts}

(***************************************************************************)
(* Tables are partial functions from primary key to row.                   *)
(***************************************************************************)
Restrict(f, S) == [x \in S |-> f[x]]
Put(f, k, v) == [x \in (DOMAIN f) \cup {k} |-> IF x = k THEN v ELSE f[x]]
Drop(f, k) == Restrict(f, (DOMAIN f) \ {k})
EmptyTable == [x \in {} |-> 0]

\* foreign-key enforcement of the connection (the schema only declares the keys)
ForeignKeysEnabled == TRUE

(***************************************************************************)
(* The seeded store: games 'Lethal Company' (1) and 'Content Warning' (2). *)
(***************************************************************************)
SeedGames == {1, 2}

InitDb ==
    [games |-> SeedGames,
     games_seq |-> 2,
     packages |-> EmptyTable,
     packages_fts |-> EmptyTable,
     versions |-> EmptyTable,
     profiles |-> EmptyTable,
     profiles_seq |-> 0,
     profile_mods |-> EmptyTable,
     profile_mods_seq |-> 0]

(***************************************************************************)
(* packages_fts and its three triggers.                                    *)
(***************************************************************************)
FtsRow(id, new) ==
    [package_id |-> id, name |-> new.name,
     description |-> new.description, owner |-> new.owner]

\* packages_fts is a bag of rows: row |-> number of copies
RECURSIVE Copies(_, _)
Copies(fts, rows) ==
    IF rows = {} THEN 0
    ELSE LET r == CHOOSE x \in rows : TRUE
         IN  fts[r] + Copies(fts, rows \ {r})

FtsCount(fts) == Copies(fts, DOMAIN fts)

FtsRowsOf(fts, id) == {r \in DOMAIN fts : r.package_id = id}

insert_package_fts(d, id, new) ==
    LET fts == d.packages_fts
        row == FtsRow(id, new)
    IN  [d EXCEPT !.packages_fts =
            IF row \in DOMAIN fts
            THEN [fts EXCEPT ![row] = @ + 1]
            ELSE Put(fts, row, 1)]

update_package_fts(d, id, new) ==
    LET fts == d.packages_fts
        Set(r) == IF r.package_id = id
                  THEN [r EXCEPT !.name = new.name,
                                 !.description = new.description,
                                 !.owner = new.owner]
                  ELSE r
    IN  [d EXCEPT !.packages_fts =
            [s \in {Set(r) : r \in DOMAIN fts} |->
                Copies(fts, {r \in DOMAIN fts : Set(r) = s})]]

delete_package_fts(d, id) ==
    [d EXCEPT !.packages_fts =
        Restrict(@, {r \in DOMAIN @ : r.package_id # id})]

(***************************************************************************)
(* Foreign keys.  The declared constraints, checked at the end of a        *)
(* statement; and the ON DELETE CASCADE actions.                           *)
(***************************************************************************)
\* mutant: packages.game_id declared without REFERENCES games(id)
packages_game_unreferenced(d) == TRUE

packages_game_fk(d) ==
    \A p \in DOMAIN d.packages : d.packages[p].game_id \in d.games

versions_package_fk(d) ==
    \A v \in DOMAIN d.versions : d.versions[v].package_id \in DOMAIN d.packages

profiles_game_fk(d) ==
    \A p \in DOMAIN d.profiles : d.profiles[p].game_id \in d.games

profile_mods_profile_fk(d) ==
    \A m \in DOMAIN d.profile_mods :
        d.profile_mods[m].profile_id \in DOMAIN d.profiles

FkOk(d) ==
    ForeignKeysEnabled =>
        /\ packages_game_fk(d)
        /\ versions_package_fk(d)
        /\ profiles_game_fk(d)
        /\ profile_mods_profile_fk(d)

\* versions.package_id ... ON DELETE CASCADE
versions_cascade(d, package) ==
    IF ForeignKeysEnabled
    THEN [d EXCEPT !.versions =
            Restrict(@, {v \in DOMAIN @ : @[v].package_id # package})]
    ELSE d

\* profile_mods.profile_id ... ON DELETE CASCADE
profile_mods_cascade(d, gone) ==
    IF ForeignKeysEnabled
    THEN [d EXCEPT !.profile_mods =
            Restrict(@, {m \in DOMAIN @ : @[m].profile_id \notin gone})]
    ELSE d

\* mutant: profiles.game_id REFERENCES games(id) without ON DELETE CASCADE
profiles_no_action(d, game) == d

\* profiles.game_id ... ON DELETE CASCADE (and, through it, profile_mods)
profiles_cascade(d, game) ==
    IF ForeignKeysEnabled
    THEN LET gone == {p \in DOMAIN d.profiles : d.profiles[p].game_id = game}
         IN  profile_mods_cascade(
                [d EXCEPT !.profiles = Restrict(@, (DOMAIN @) \ gone)], gone)
    ELSE d

\* A statement is atomic: it commits its row changes, trigger effects and
\* cascades together, or (a constraint failing) leaves the store as it was.
Statement(before, after) ==
    IF FkOk(after)
    THEN [db |-> after, status |-> "ok"]
    ELSE [db |-> before, status |-> "fk_error"]

Failed(before, why) == [db |-> before, status |-> why]

(***************************************************************************)
(* Writes to packages.                                                     *)
(***************************************************************************)
\* the row delete shared by DELETE and by REPLACE's conflict resolution
DeletePackageRow(d, id, fire) ==
    LET d1 == versions_cascade([d EXCEPT !.packages = Drop(@, id)], id)
    IN  IF fire THEN delete_package_fts(d1, id) ELSE d1

InsertPackageRow(d, id, new) ==
    insert_package_fts([d EXCEPT !.packages = Put(@, id, new)], id, new)

\* INSERT INTO packages
ExecInsertPackage(d, id, new) ==
    IF id \in DOMAIN d.packages
    THEN Failed(d, "unique_error")
    ELSE Statement(d, InsertPackageRow(d, id, new))

\* INSERT OR REPLACE INTO packages
ExecReplacePackage(d, id, new, rec) ==
    LET d1 == IF id \in DOMAIN d.packages
              THEN DeletePackageRow(d, id, rec)
              ELSE d
    IN  Statement(d, InsertPackageRow(d1, id, new))

\* UPDATE packages SET id = newid, <columns> = new WHERE id = old
ExecUpdatePackage(d, old, newid, new) ==
    IF newid # old /\ newid \in DOMAIN d.packages
    THEN Failed(d, "unique_error")
    ELSE Statement(d,
            update_package_fts(
                [d EXCEPT !.packages = Put(Drop(@, old), newid, new)],
                newid, new))

\* DELETE FROM packages WHERE id = id
ExecDeletePackage(d, id) ==
    Statement(d, DeletePackageRow(d, id, TRUE))

(***************************************************************************)
(* Writes to the other tables.                                             *)
(***************************************************************************)
ExecInsertGame(d) ==
    LET id == d.games_seq + 1
    IN  Statement(d, [d EXCEPT !.games = @ \cup {id}, !.games_seq = id])

ExecDeleteGame(d, id) ==
    Statement(d, profiles_cascade([d EXCEPT !.games = @ \ {id}], id))

ExecInsertVersion(d, id, package) ==
    IF id \in DOMAIN d.versions
    THEN Failed(d, "unique_error")
    ELSE Statement(d,
            [d EXCEPT !.versions = Put(@, id, [package_id |-> package])])

ExecDeleteVersion(d, id) ==
    Statement(d, [d EXCEPT !.versions = Drop(@, id)])

ExecInsertProfile(d, game) ==
    LET id == d.profiles_seq + 1
    IN  Statement(d,
            [d EXCEPT !.profiles = Put(@, id, [game_id |-> game]),
                      !.profiles_seq = id])

ExecDeleteProfile(d, id) ==
    Statement(d,
        profile_mods_cascade([d EXCEPT !.profiles = Drop(@, id)], {id}))

ExecInsertProfileMod(d, profile) ==
    LET id == d.profile_mods_seq + 1
    IN  Statement(d,
            [d EXCEPT !.profile_mods = Put(@, id, [profile_id |-> profile]),
                      !.profile_mods_seq = id])

ExecDeleteProfileMod(d, id) ==
    Statement(d, [d EXCEPT !.profile_mods = Drop(@, id)])

(***************************************************************************)
(* Actions: one per statement.                                             *)
(***************************************************************************)
\* dbres.arg: the game_id written (package writes), the row deleted
\* (delete_game, delete_profile), 0 otherwise
Run(stmt, res, arg) ==
    /\ db' = res.db
    /\ dbres' = [stmt |-> stmt, status |-> res.status, arg |-> arg]
    /\ UNCHANGED <<recursive_triggers, uiVars, migVars>>

InsertPackageOf(ids, inputs) ==
    \E id \in ids, new \in inputs :
        /\ FtsCount(db.packages_fts) < MaxFtsRows
        /\ Run("insert_package", ExecInsertPackage(db, id, new), new.game_id)

InsertPackage == InsertPackageOf(PackageIds, PackageInputs)

\* the registry sync publishing one package for some game
InsertGamePackage ==
    InsertPackageOf({"p1"}, {r \in PackageInputs : r.name = "a"})

ReplacePackage ==
    \E id \in PackageIds, new \in PackageInputs :
        /\ FtsCount(db.packages_fts) < MaxFtsRows
        /\ Run("replace_package",
               ExecReplacePackage(db, id, new, recursive_triggers), new.game_id)

UpdatePackage ==
    \E old \in DOMAIN db.packages, newid \in PackageIds, new \in PackageInputs :
        Run("update_package", ExecUpdatePackage(db, old, newid, new), new.game_id)

DeletePackage ==
    \E id \in DOMAIN db.packages :
        Run("delete_package", ExecDeletePackage(db, id), 0)

InsertGame ==
    /\ db.games_seq < MaxGameId
    /\ Run("insert_game", ExecInsertGame(db), 0)

DeleteGame ==
    \E id \in db.games : Run("delete_game", ExecDeleteGame(db, id), id)

InsertVersion ==
    \E id \in VersionIds, package \in PackageIds :
        Run("insert_version", ExecInsertVersion(db, id, package), 0)

DeleteVersion ==
    \E id \in DOMAIN db.versions :
        Run("delete_version", ExecDeleteVersion(db, id), 0)

InsertProfile ==
    \E game \in GameIds :
        /\ db.profiles_seq < MaxProfileId
        /\ Run("insert_profile", ExecInsertProfile(db, game), 0)

DeleteProfile ==
    \E id \in DOMAIN db.profiles :
        Run("delete_profile", ExecDeleteProfile(db, id), id)

InsertProfileMod ==
    \E profile \in 1..MaxProfileId :
        /\ db.profile_mods_seq < MaxProfileModId
        /\ Run("insert_profile_mod", ExecInsertProfileMod(db, profile), 0)

DeleteProfileMod ==
    \E id \in DOMAIN db.profile_mods :
        Run("delete_profile_mod", ExecDeleteProfileMod(db, id), 0)


(***************************************************************************)
(* The schema store: migration scripts and the migrate runner.             *)
(***************************************************************************)
Scripts == {"1_initial", "part_000", "part_001"}

\* the tables a script creates (CREATE TABLE, without IF NOT EXISTS)
Creates(script) ==
    CASE script = "1_initial" ->
            {"communities", "packages", "packages_fts", "versions",
             "categories", "package_categories", "profiles", "profile_mods"}
      [] script = "part_000" ->
            {"manager", "managed_games", "profiles", "prefs", "telemetry"}
      [] script = "part_001" ->
            {"games", "categories", "package_categories", "packages",
             "packages_fts", "versions", "dependencies", "profiles",
             "profile_mods", "settings"}

\* the rows a script inserts into a table it created
SeedRows(script, table) ==
    CASE script = "1_initial" /\ table = "communities" -> 2
      [] script = "part_001" /\ table = "games" -> 2
      [] script = "part_001" /\ table = "settings" -> 1
      [] OTHER -> 0

\* one step in its own transaction: a CREATE TABLE of an existing table
\* fails and the transaction rolls back
RunStep(store, script) ==
    IF Creates(script) \cap DOMAIN store.tables # {}
    THEN [ok |-> FALSE, store |-> store]
    ELSE [ok |-> TRUE,
          store |->
            [schema_version |-> store.schema_version + 1,
             tables |->
                [t \in (DOMAIN store.tables) \cup Creates(script) |->
                    IF t \in Creates(script)
                    THEN SeedRows(script, t)
                    ELSE store.tables[t]]]]

\* mutant: the runner starts over from the first step
FirstStep(store) == 1

\* the first unapplied step: currentVersion() + 1
FirstPending(store) == store.schema_version + 1

\* the steps from i to target in ascending order, halting at a failure
RECURSIVE MigrateFrom(_, _, _, _, _)
MigrateFrom(seq, store, i, target, ran) ==
    IF i > target
    THEN [store |-> store, ran |-> ran]
    ELSE LET r == RunStep(store, seq[i])
         IN  IF r.ok
             THEN MigrateFrom(seq, r.store, i + 1, target, ran \cup {i})
             ELSE [store |-> store, ran |-> ran \cup {i}]

migrate(seq, store, target) ==
    MigrateFrom(seq, store, FirstPending(store), target, {})

\* every sequence of distinct scripts
Sequences1 == {<<a>> : a \in Scripts}
Sequences2 == {<<a, b>> : a, b \in Scripts} \ {<<a, a>> : a \in Scripts}
Sequences3 ==
    {<<a, b, c>> : a, b, c \in Scripts}
        \ {q \in {<<a, b, c>> : a, b, c \in Scripts} :
            q[1] = q[2] \/ q[1] = q[3] \/ q[2] = q[3]}

InitSchema ==
    /\ migrations \in Sequences1 \cup Sequences2 \cup Sequences3
    /\ schema_version = 0
    /\ tables = EmptyTable
    /\ attempted = {}
    /\ runs = 0
    /\ mop = "none"

\* the store every other component starts from: part_001 applied
InitMigrated ==
    /\ migrations = <<"part_001">>
    /\ schema_version = 1
    /\ tables = RunStep([schema_version |-> 0, tables |-> EmptyTable],
                        "part_001").store.tables
    /\ attempted = {1}
    /\ runs = 1
    /\ mop = "migrate"

\* migrate(targetVersion)
Migrate ==
    \E target \in 1..Len(migrations) :
        LET r == migrate(migrations,
                         [schema_version |-> schema_version, tables |-> tables],
                         target)
        IN  /\ schema_version' = r.store.schema_version
            /\ tables' = r.store.tables
            /\ attempted' = r.ran
            /\ runs' = IF target = Len(migrations)
                       THEN (IF runs < 2 THEN runs + 1 ELSE 2)
                       ELSE 0
            /\ mop' = "migrate"
            /\ UNCHANGED <<migrations, dbVars, uiVars>>

\* a row inserted into, or deleted from, a seeded table by the components
\* that run after migration
WriteRow ==
    \E t \in (DOMAIN tables) \cap {"communities", "games", "settings"},
       n \in 0..MaxRows :
        /\ n \in {tables[t] + 1, tables[t] - 1}
        /\ tables' = [tables EXCEPT ![t] = n]
        /\ runs' = 0
        /\ mop' = "write"
        /\ UNCHANGED <<migrations, schema_version, attempted, dbVars, uiVars>>

NextSchema ==
    \/ Migrate
    \/ WriteRow

(***************************************************************************)
(* The presentation layer's state module (profile.svelte.ts).              *)
(***************************************************************************)
ProfileIds == {1, 2}
CommunityIds == {1, 2}

\* undefined
NoProfile == [id |-> 0, mods |-> 0]
NoCommunity == 0
\* localStorage.getItem of a key that was never set
Null == ""

Snapshot(id) == [id |-> id, mods |-> backend[id]]

\* parseInt, on the decimal strings toString writes
ParseInt(value) == CHOOSE n \in 0..9 : ToString(n) = value

getLocalStorageInt(ls, key, def) ==
    IF ls[key] = Null THEN def ELSE ParseInt(ls[key])

setLocalStorageInt(ls, key, value) ==
    [ls EXCEPT ![key] = ToString(value)]

getCommunity(all, id) ==
    IF id \in all THEN id ELSE NoCommunity

\* mutant: the profile id stored under the community's key
ProfilesStoreCommunityKey(ls, act) ==
    setLocalStorageInt(ls, "activeCommunity",
        IF act # NoProfile THEN act.id ELSE 1)

\* setLocalStorageInt('activeProfile', profiles.active?.id ?? 1)
ProfilesStore(ls, act) ==
    setLocalStorageInt(ls, "activeProfile",
        IF act # NoProfile THEN act.id ELSE 1)

\* setLocalStorageInt('activeCommunity', communities.active?.id ?? 1)
CommunitiesStore(ls, act) ==
    setLocalStorageInt(ls, "activeCommunity",
        IF act # NoCommunity THEN act ELSE 1)

\* mutant: the payload's mods added to the active profile's instead of
\* replacing the snapshot
ListenerMerges(act, payload) ==
    IF act # NoProfile /\ act.id = payload.id
    THEN [act EXCEPT !.mods = (@ + payload.mods) % (MaxMods + 2)]
    ELSE act

\* mutant: the payload assigned whatever its id
ListenerUnconditional(act, payload) == payload

\* listen('profile-update'): the new value of profiles.active
Listener(act, payload) ==
    IF act # NoProfile /\ act.id = payload.id THEN payload ELSE act

RemoveAt(seq, i) ==
    [j \in 1..(Len(seq) - 1) |-> IF j < i THEN seq[j] ELSE seq[j + 1]]

\* module load, line 43: fetchCommunities() reads the stored id and awaits
LoadFetch(ls) ==
    [pending |-> TRUE, id |-> getLocalStorageInt(ls, "activeCommunity", 1)]

\* module load, lines 45-46: profiles.setActive(stored id) issued
LoadActiveProfileId(ls) == getLocalStorageInt(ls, "activeProfile", 1)

InitUi ==
    /\ backend = [p \in ProfileIds |-> 0]
    /\ localStorage = [k \in {"activeProfile", "activeCommunity"} |-> Null]
    /\ active = NoProfile
    /\ calls = << [id |-> LoadActiveProfileId(localStorage),
                   reply |-> NoProfile] >>
    /\ lastRequested = LoadActiveProfileId(localStorage)
    /\ communities_all = {}
    /\ communities_active = NoCommunity
    /\ fetch = LoadFetch(localStorage)
    /\ events = <<>>
    /\ lastEvent = NoProfile
    /\ seenActive = NoProfile
    /\ raced = {}
    /\ op = "load"

\* Profiles.setActive(id), up to its await; `track` records the history
\* variables lastRequested and raced
SetActiveOf(track) ==
    \E id \in ProfileIds :
        /\ Len(calls) < MaxInFlight
        /\ calls' = Append(calls, [id |-> id, reply |-> NoProfile])
        /\ lastRequested' = IF track THEN id ELSE lastRequested
        /\ op' = "setActive"
        /\ UNCHANGED <<backend, events, active, lastEvent, seenActive, raced,
                       communityVars, localStorage, dbVars, migVars>>

SetActive == SetActiveOf(FALSE)

SetActiveTracked == SetActiveOf(TRUE)

\* the backend serves a 'get': it reads the committed snapshot
BackendGet ==
    \E i \in DOMAIN calls :
        /\ calls[i].reply = NoProfile
        /\ calls' = [calls EXCEPT ![i].reply = Snapshot(calls[i].id)]
        /\ op' = "get"
        /\ UNCHANGED <<backend, events, active, lastEvent, lastRequested,
                       seenActive, raced, communityVars, localStorage, dbVars, migVars>>

\* Profiles.setActive resumes with the reply: lines 30-31
SetActiveReply ==
    \E i \in DOMAIN calls :
        /\ calls[i].reply # NoProfile
        /\ active' = calls[i].reply
        /\ localStorage' = ProfilesStore(localStorage, active')
        /\ calls' = RemoveAt(calls, i)
        /\ seenActive' = NoProfile
        /\ op' = "setActiveDone"
        /\ UNCHANGED <<backend, events, lastEvent, lastRequested, raced,
                       communityVars, dbVars, migVars>>

\* a profile mutation commits (a mod added or removed) and its event is
\* published
Commit ==
    \E id \in ProfileIds, mods \in 0..MaxMods :
        /\ Len(events) < MaxQueue
        /\ mods \in {backend[id] + 1, backend[id] - 1}
        /\ backend' = [backend EXCEPT ![id] = mods]
        /\ events' = Append(events, [id |-> id, mods |-> mods])
        /\ op' = "commit"
        /\ UNCHANGED <<calls, active, lastEvent, lastRequested, seenActive,
                       raced, communityVars, localStorage, dbVars, migVars>>

Delivered(payload, track) ==
    /\ active' = Listener(active, payload)
    /\ seenActive' =
        IF active # NoProfile /\ payload.id = active.id
        THEN payload ELSE seenActive
    /\ raced' =
        IF track
        THEN raced \cup {calls[i].id : i \in {j \in DOMAIN calls :
                                            calls[j].id = payload.id}}
        ELSE raced
    /\ lastEvent' = payload

\* the next event reaches the subscriber
DeliverOf(track) ==
    /\ events # <<>>
    /\ Delivered(Head(events), track)
    /\ events' = Tail(events)
    /\ op' = "deliver"
    /\ UNCHANGED <<backend, calls, lastRequested, communityVars,
                   localStorage, dbVars, migVars>>

Deliver == DeliverOf(FALSE)

DeliverTracked == DeliverOf(TRUE)

\* the event delivered last reaches the subscriber once more
RedeliverOf(track) ==
    /\ op \in {"deliver", "redeliver"}
    /\ Delivered(lastEvent, track)
    /\ op' = "redeliver"
    /\ UNCHANGED <<backend, events, calls, lastRequested, communityVars,
                   localStorage, dbVars, migVars>>

Redeliver == RedeliverOf(FALSE)

RedeliverTracked == RedeliverOf(TRUE)

\* Communities.setActive(id)
CommunitiesSetActive ==
    \E id \in CommunityIds :
        /\ communities_active' = getCommunity(communities_all, id)
        /\ localStorage' = CommunitiesStore(localStorage, communities_active')
        /\ op' = "communitiesSetActive"
        /\ UNCHANGED <<communities_all, fetch, profileVars, dbVars, migVars>>

\* fetchCommunities resumes with the reply: lines 66-67
FetchCommunitiesReply ==
    /\ fetch.pending
    /\ communities_all' = CommunityIds
    /\ communities_active' = getCommunity(communities_all', fetch.id)
    /\ fetch' = [fetch EXCEPT !.pending = FALSE]
    /\ op' = "fetched"
    /\ UNCHANGED <<profileVars, localStorage, dbVars, migVars>>

\* the application is closed and started again: the store and localStorage
\* survive, the module is loaded anew
Restart ==
    /\ op # "load"
    /\ active' = NoProfile
    /\ calls' = << [id |-> LoadActiveProfileId(localStorage),
                    reply |-> NoProfile] >>
    /\ lastRequested' = LoadActiveProfileId(localStorage)
    /\ communities_all' = {}
    /\ communities_active' = NoCommunity
    /\ fetch' = LoadFetch(localStorage)
    /\ events' = <<>>
    /\ lastEvent' = NoProfile
    /\ seenActive' = NoProfile
    /\ raced' = {}
    /\ op' = "load"
    /\ UNCHANGED <<backend, localStorage, dbVars, migVars>>

InitSync ==
    /\ InitUi
    /\ InitMigrated
    /\ db = InitDb
    /\ recursive_triggers = FALSE
    /\ dbres = [stmt |-> "none", status |-> "ok", arg |-> 0]

NextSync ==
    \/ SetActive
    \/ BackendGet
    \/ SetActiveReply
    \/ Commit
    \/ Deliver
    \/ Redeliver

SpecSync == InitSync /\ [][NextSync]_vars

\* the same steps, with the history of requests and races recorded
NextRace ==
    \/ SetActiveTracked
    \/ BackendGet
    \/ SetActiveReply
    \/ Commit
    \/ DeliverTracked
    \/ RedeliverTracked

SpecRace == InitSync /\ [][NextRace]_vars

NextSession ==
    \/ SetActive
    \/ BackendGet
    \/ SetActiveReply
    \/ CommunitiesSetActive
    \/ FetchCommunitiesReply
    \/ Restart

SpecSession == InitSync /\ [][NextSession]_vars

InitStore ==
    /\ InitSchema
    /\ InitUi
    /\ db = InitDb
    /\ recursive_triggers = FALSE
    /\ dbres = [stmt |-> "none", status |-> "ok", arg |-> 0]

SpecSchema == InitStore /\ [][NextSchema]_vars

(***************************************************************************)
(* The catalog's specifications.                                           *)
(***************************************************************************)
InitCatalog ==
    /\ InitUi
    /\ InitMigrated
    /\ db = InitDb
    /\ recursive_triggers \in BOOLEAN
    /\ dbres = [stmt |-> "none", status |-> "ok", arg |-> 0]

NextCatalog ==
    \/ InsertPackage
    \/ ReplacePackage
    \/ UpdatePackage
    \/ DeletePackage
    \/ InsertVersion
    \/ DeleteVersion
    \/ DeleteGame

SpecCatalog == InitCatalog /\ [][NextCatalog]_vars

NextProfiles ==
    \/ InsertGame
    \/ DeleteGame
    \/ InsertGamePackage
    \/ DeletePackage
    \/ InsertProfile
    \/ DeleteProfile
    \/ InsertProfileMod
    \/ DeleteProfileMod

InitProfiles ==
    /\ InitUi
    /\ InitMigrated
    /\ db = InitDb
    /\ recursive_triggers = FALSE
    /\ dbres = [stmt |-> "none", status |-> "ok", arg |-> 0]

SpecProfiles == InitProfiles /\ [][NextProfiles]_vars

(***************************************************************************)
(* Claims about the catalog.                                               *)
(***************************************************************************)
PackageWrites == {"insert_package", "replace_package", "update_package"}

\* C1: packages_fts holds exactly one row for every package, equal to the
\* package's (id, name, description, owner), and no row for an id that
\* is not in packages.
C1_FtsInSync ==
    LET fts == db.packages_fts
    IN  /\ \A p \in DOMAIN db.packages :
            LET row == FtsRow(p, db.packages[p])
            IN  /\ FtsRowsOf(fts, p) = {row}
                /\ fts[row] = 1
        /\ \A r \in DOMAIN fts : r.package_id \in DOMAIN db.packages

\* C2: every package's latest_version_id is the id of an existing version
\* of that package.
C2_LatestVersionValid ==
    \A p \in DOMAIN db.packages :
        LET v == db.packages[p].latest_version_id
        IN  /\ v \in DOMAIN db.versions
            /\ db.versions[v].package_id = p

\* C8 (as stated): a package write whose game_id is not an existing game
\* fails with the foreign-key error and leaves the store unchanged.
C8_FkErrorNoChange ==
    [][ (dbres'.stmt \in PackageWrites /\ dbres'.arg \notin db.games)
            => (dbres'.status = "fk_error" /\ db' = db) ]_vars

\* C8 (amended): such a write fails with an integrity error and leaves the
\* store unchanged; the error is the foreign-key error, except that a plain
\* INSERT or an UPDATE that also collides with an existing package id fails
\* with the uniqueness error (REPLACE never does).
C8_IntegrityErrorNoChange ==
    [][ (dbres'.stmt \in PackageWrites /\ dbres'.arg \notin db.games)
            => /\ db' = db
               /\ \/ dbres'.status = "fk_error"
                  \/ /\ dbres'.status = "unique_error"
                     /\ dbres'.stmt # "replace_package"
                     /\ DOMAIN db.packages # {} ]_vars

C8_Witness ==
    /\ dbres.stmt \in PackageWrites
    /\ dbres.arg \notin db.games
    /\ dbres.status = "fk_error"
    /\ DOMAIN db.packages # {}
    /\ C1_FtsInSync

\* C7: deleting a game deletes its profiles, deleting a profile (directly
\* or by that cascade) deletes its profile_mods, rows of other games and
\* profiles are untouched, and no profile or profile_mod ever dangles.
C7_GameDeleteStep ==
    (dbres'.stmt = "delete_game"
        /\ \A p \in DOMAIN db.packages : db.packages[p].game_id # dbres'.arg)
    => LET g == dbres'.arg
           kept == {p \in DOMAIN db.profiles : db.profiles[p].game_id # g}
       IN  /\ dbres'.status = "ok"
           /\ db'.games = db.games \ {g}
           /\ db'.profiles = Restrict(db.profiles, kept)
           /\ db'.profile_mods =
                Restrict(db.profile_mods,
                    {m \in DOMAIN db.profile_mods :
                        db.profile_mods[m].profile_id \in kept})

C7_ProfileDeleteStep ==
    dbres'.stmt = "delete_profile"
    => LET q == dbres'.arg
       IN  /\ dbres'.status = "ok"
           /\ db'.games = db.games
           /\ db'.profiles = Drop(db.profiles, q)
           /\ db'.profile_mods =
                Restrict(db.profile_mods,
                    {m \in DOMAIN db.profile_mods :
                        db.profile_mods[m].profile_id # q})

C7_NoDangling ==
    /\ \A p \in DOMAIN db.profiles : db.profiles[p].game_id \in db.games
    /\ \A m \in DOMAIN db.profile_mods :
        db.profile_mods[m].profile_id \in DOMAIN db.profiles

\* C7: no profile or profile_mod dangles, and every delete of a game or of
\* a profile cascades as declared.
C7_Cascade ==
    /\ C7_NoDangling
    /\ [][C7_GameDeleteStep /\ C7_ProfileDeleteStep /\ C7_NoDangling']_vars

\* a game delete has just removed a profile and its mod while a profile and
\* a mod of the other game remain
C7_Witness ==
    /\ dbres.stmt = "delete_game"
    /\ dbres.status = "ok"
    /\ db.profiles_seq = 2
    /\ db.profile_mods_seq = 2
    /\ Cardinality(DOMAIN db.profiles) = 1
    /\ Cardinality(DOMAIN db.profile_mods) = 1

(***************************************************************************)
(* Claims about the presentation layer.                                    *)
(***************************************************************************)
\* C3: with no setActive in flight, a delivered event whose id is the
\* active profile's replaces the active profile by its snapshot, any other
\* event (or any event while no profile is active) leaves it unchanged; so
\* the active profile is the snapshot of the last delivered event for its
\* id, among the events delivered since it became active.
C3_DeliverStep ==
    (op' \in {"deliver", "redeliver"} /\ calls = <<>>)
    => active' = IF active # NoProfile /\ active.id = lastEvent'.id
                 THEN lastEvent'
                 ELSE active

C3_LastMatching ==
    (calls = <<>> /\ seenActive # NoProfile) => active = seenActive

\* C3: the active profile follows the delivered events for its id and no
\* others.
C3_ActiveFollowsEvents ==
    /\ C3_LastMatching
    /\ [][C3_DeliverStep /\ C3_LastMatching']_vars

\* two events were committed; with no call in flight the one for the active
\* profile was applied and the one for the other profile ignored
C3_Witness ==
    /\ op = "deliver"
    /\ calls = <<>>
    /\ events = <<>>
    /\ active # NoProfile
    /\ active = seenActive
    /\ lastEvent.id # active.id
    /\ active.mods = 1

\* C4: delivering the event delivered last once more changes neither the
\* active profile nor the stored 'activeProfile' id.
C4_DuplicateIsNoOp ==
    [][ op' = "redeliver"
            => (active' = active /\ localStorage' = localStorage) ]_vars

C4_Witness ==
    /\ op = "redeliver"
    /\ active # NoProfile
    /\ active = lastEvent
    /\ active.mods = 1

Switches == {"setActive", "setActiveDone", "communitiesSetActive"}

C9_NoStaleSnapshot ==
    (calls = <<>> /\ events = <<>> /\ active.id \in raced)
        => active = Snapshot(active.id)

\* C10: once no setActive is in flight the active profile is the one
\* requested last, and the stored 'activeProfile' id is its id.
C10_LastRequestWins ==
    calls = <<>>
        => /\ active # NoProfile
           /\ active.id = lastRequested
           /\ localStorage["activeProfile"] = ToString(active.id)

(***************************************************************************)
(* Claims about the schema store.                                          *)
(***************************************************************************)
\* C6: a second application of the full migration sequence leaves the
\* watermark and every table's row count as the first left them, and no
\* migrate call runs a step at or below the watermark.
C6_MigrationIdempotent ==
    [][ /\ runs' = 2 => (schema_version' = schema_version /\ tables' = tables)
        /\ mop' = "migrate" => \A i \in attempted' : i > schema_version
      ]_vars

\* the full sequence was applied twice in a row; the seeded rows are there
\* once
C6_Witness ==
    /\ runs = 2
    /\ schema_version = Len(migrations)
    /\ "games" \in DOMAIN tables
    /\ tables["games"] = 2
    /\ tables["settings"] = 1

====
